---- MODULE Spec2Model ----
(***************************************************************************)
(* Model of tools/pin-cpu.py: pinning the vCPU threads of a running VM to  *)
(* physical cores.  The script is a straight-line program: connect to the  *)
(* QMP endpoint (line 30), issue query-cpus-fast twice (lines 31, 32),     *)
(* build the core list (line 33) and pin thread i to o_cpus[i] for         *)
(* i in range(N) (lines 35-36).  onlinecpu() (lines 6-14) is defined by    *)
(* the script but never called by it; it is modelled as an operator and    *)
(* exercised by its own specification, SpecOnlineCpu.                      *)
(*                                                                         *)
(* The interpreter is the one the shebang names (python3): an uncaught     *)
(* exception prints a traceback on stderr and ends the process with        *)
(* status 1, and `print >> sys.stderr, e` raises TypeError.                *)
(***************************************************************************)
EXTENDS Integers, Sequences, FiniteSets, TLC

\* ------------------------------------------------------------------ bounds
\* sys.argv[2] ranges over 0..MaxN
MaxN == 2
\* highest NUMA node index of a host the main flow runs on
MaxNode == 1
\* onlinecpu() is applied to hosts with node indices 0..OcMaxNode ...
OcMaxNode == 1
\* ... whose nodes are arbitrary subsets of the CPUs 0..OcMaxCpu
OcMaxCpu == 3

\* derived input ranges
MaxHostCpus == MaxN + 1
MaxTid == MaxN
MaxResp == MaxN

\* thread ids the VM may report
Tids == 1..MaxTid
\* an entry of the 'return' list is the value of its 'thread-id' field;
\* NoThreadId stands for an entry that has no 'thread-id' field
NoThreadId == 0 - 1
Entries == Tids \cup {NoThreadId}

VARIABLES
    N,              \* int(sys.argv[2])
    max_node,       \* numa.get_max_node()
    node_to_cpus,   \* numa.node_to_cpus: node index -> set of CPU ids
    vm_return,      \* the 'return' list the VM sends for query-cpus-fast
    threads,        \* thread ids that exist in the OS (psutil.Process succeeds)
    pc,             \* position of the script
    ncmds,          \* query commands issued so far (query.cmd calls)
    response,       \* module variable response (line 32)
    o_cpus,         \* module variable o_cpus (line 33)
    i,              \* loop variable of line 35
    affinity,       \* OS state: thread id -> set of allowed CPUs
    calls,          \* history: the pin_proc calls made, in order
    stderr,         \* diagnostic stream: the exceptions written to it
    exit_status,    \* process exit status, Running until the process ends
    oc_result       \* value returned by onlinecpu()

vars == <<N, max_node, node_to_cpus, vm_return, threads, pc, ncmds, response,
          o_cpus, i, affinity, calls, stderr, exit_status, oc_result>>

Running == 0 - 1

\* ------------------------------------------------------- python primitives
\* range(a, b); range(n) is range(0, n)
range_inclusive(a, b) == a..b
range(a, b) == a..(b - 1)

\* [x for x in range(n)]: the elements of range(0, n) in iteration order
ListOfRange(n) == [k \in 1..Cardinality(range(0, n)) |-> k - 1]

\* sorted(S) for a collection of distinct integers: ascending order
RECURSIVE sorted_descending(_)
sorted_descending(S) ==
    IF S = {} THEN <<>>
    ELSE LET m == CHOOSE x \in S : \A y \in S : x >= y
         IN  <<m>> \o sorted_descending(S \ {m})

RECURSIVE sorted(_)
sorted(S) ==
    IF S = {} THEN <<>>
    ELSE LET m == CHOOSE x \in S : \A y \in S : x <= y
         IN  <<m>> \o sorted(S \ {m})

\* seq[k] with Python's 0-based index, and whether it raises IndexError
PyInRange(seq, k) == k \in 0..(Len(seq) - 1)
PyGet(seq, k) == seq[k + 1]

\* the elements of a Python list, as a set
ListElems(seq) == {seq[k] : k \in DOMAIN seq}

\* ---------------------------------------------------------------- onlinecpu
\* lines 9-14: for node in range(0, max+1): for cpu in sorted(cpus(node)): append
RECURSIVE onlinecpu_from(_, _, _)
onlinecpu_from(node, mn, n2c) ==
    IF node \notin range(0, mn + 1) THEN <<>>
    ELSE sorted(n2c[node]) \o onlinecpu_from(node + 1, mn, n2c)

onlinecpu(mn, n2c) == onlinecpu_from(0, mn, n2c)

\* CPUs that exist on the host: cpu_affinity accepts exactly these
HostCpus == UNION {node_to_cpus[n] : n \in DOMAIN node_to_cpus}

\* ------------------------------------------------------------------ pin_proc
\* cpu_affinity(cpus) raises ValueError unless every CPU of the list exists
ValidCpus(cpus) == ListElems(cpus) \subseteq HostCpus

\* line 21: the list handed to cpu_affinity
pin_cpus(core) == <<core>>

\* line 36: the index into response used by iteration i
RespIndex_next(k) == k + 1
RespIndex(k) == k

\* line 33
o_cpus_all_zero(n) == [k \in 1..Cardinality(range(0, n)) |-> 0]
o_cpus_list(n) == ListOfRange(n)

Exc(name, line) == [exc |-> name, line |-> line]

Call(idx, tid, core, ok, err) ==
    [idx |-> idx, tid |-> tid, core |-> core, cpus |-> pin_cpus(core),
     ok |-> ok, err |-> err]

\* ---------------------------------------------------------------------- Init
\* Hosts of the main flow: CPUs 0..k-1, each in exactly one node.
Topologies ==
    UNION {UNION {{[n \in 0..mn |-> {c \in 0..(k - 1) : f[c] = n}] :
                     f \in [0..(k - 1) -> 0..mn]} :
                  k \in 1..MaxHostCpus} :
           mn \in 0..MaxNode}

Responses == UNION {[1..len -> Entries] : len \in 0..MaxResp}

Init ==
    /\ N \in 0..MaxN
    /\ node_to_cpus \in Topologies
    /\ max_node = Cardinality(DOMAIN node_to_cpus) - 1
    /\ vm_return \in Responses
    /\ \E dead \in 0..MaxTid : threads = Tids \ {dead}
    /\ pc = "connect"
    /\ ncmds = 0
    /\ response = <<>>
    /\ o_cpus = <<>>
    /\ i = 0
    /\ affinity = [t \in threads |-> HostCpus]
    /\ calls = <<>>
    /\ stderr = <<>>
    /\ exit_status = Running
    /\ oc_result = <<>>

env == <<N, max_node, node_to_cpus, vm_return, threads, oc_result>>

\* An uncaught exception: traceback naming excs on stderr, exit status 1.
Uncaught(excs) ==
    /\ stderr' = stderr \o excs
    /\ exit_status' = 1
    /\ pc' = "exited"

\* ------------------------------------------------------------- query step
\* line 30
ConnectOk ==
    /\ pc = "connect"
    /\ pc' = "cmd1"
    /\ UNCHANGED <<env, ncmds, response, o_cpus, i, affinity, calls, stderr,
                   exit_status>>

ConnectFail ==
    /\ pc = "connect"
    /\ Uncaught(<<Exc("ConnectionError", 30)>>)
    /\ UNCHANGED <<env, ncmds, response, o_cpus, i, affinity, calls>>

\* line 31: print(query.cmd("query-cpus-fast"))
Cmd1Ok ==
    /\ pc = "cmd1"
    /\ ncmds' = ncmds + 1
    /\ pc' = "cmd2"
    /\ UNCHANGED <<env, response, o_cpus, i, affinity, calls, stderr,
                   exit_status>>

Cmd1Fail_swallowed ==
    /\ pc = "cmd1"
    /\ ncmds' = ncmds + 1
    /\ stderr' = stderr \o <<Exc("QMPError", 31)>>
    /\ pc' = "cmd2"
    /\ UNCHANGED <<env, response, o_cpus, i, affinity, calls, exit_status>>

Cmd1Fail ==
    /\ pc = "cmd1"
    /\ ncmds' = ncmds + 1
    /\ Uncaught(<<Exc("QMPError", 31)>>)
    /\ UNCHANGED <<env, response, o_cpus, i, affinity, calls>>

\* line 32: response = query.cmd("query-cpus-fast")['return']
Cmd2Ok ==
    /\ pc = "cmd2"
    /\ ncmds' = ncmds + 1
    /\ response' = vm_return
    /\ pc' = "ocpus"
    /\ UNCHANGED <<env, o_cpus, i, affinity, calls, stderr, exit_status>>

Cmd2Fail ==
    /\ pc = "cmd2"
    /\ ncmds' = ncmds + 1
    /\ Uncaught(<<Exc("QMPError", 32)>>)
    /\ UNCHANGED <<env, response, o_cpus, i, affinity, calls>>

\* the reply has no 'return' member
Cmd2NoReturn ==
    /\ pc = "cmd2"
    /\ ncmds' = ncmds + 1
    /\ Uncaught(<<Exc("KeyError", 32)>>)
    /\ UNCHANGED <<env, response, o_cpus, i, affinity, calls>>

\* line 33: o_cpus = [x for x in range(int(sys.argv[2]))]
BuildOCpus ==
    /\ pc = "ocpus"
    /\ o_cpus' = o_cpus_list(N)
    /\ i' = 0
    /\ pc' = "loop"
    /\ UNCHANGED <<env, ncmds, response, affinity, calls, stderr, exit_status>>

\* ---------------------------------------------------------------- pin loop
InLoop == pc = "loop" /\ i \in range(0, N)

\* line 36, response[i]: IndexError
PinIndexError_truncate ==
    /\ InLoop
    /\ ~PyInRange(response, RespIndex(i))
    /\ exit_status' = 0
    /\ pc' = "exited"
    /\ UNCHANGED <<env, ncmds, response, o_cpus, i, affinity, calls, stderr>>

PinIndexError ==
    /\ InLoop
    /\ ~PyInRange(response, RespIndex(i))
    /\ Uncaught(<<Exc("IndexError", 36)>>)
    /\ UNCHANGED <<env, ncmds, response, o_cpus, i, affinity, calls>>

\* line 36, response[i]['thread-id']: KeyError
PinKeyError ==
    /\ InLoop
    /\ PyInRange(response, RespIndex(i))
    /\ PyGet(response, RespIndex(i)) = NoThreadId
    /\ Uncaught(<<Exc("KeyError", 36)>>)
    /\ UNCHANGED <<env, ncmds, response, o_cpus, i, affinity, calls>>

\* the arguments of pin_proc at iteration i
Callable ==
    /\ InLoop
    /\ PyInRange(response, RespIndex(i))
    /\ PyGet(response, RespIndex(i)) # NoThreadId

pid == PyGet(response, RespIndex(i))
core == PyGet(o_cpus, i)

\* line 21, psutil.Process(pid): NoSuchProcess is not a ValueError, so the
\* handler of line 22 does not see it
PinNoSuchProcess_continue ==
    /\ Callable
    /\ pid \notin threads
    /\ calls' = Append(calls, Call(i, pid, core, FALSE, "NoSuchProcess"))
    /\ stderr' = stderr \o <<Exc("NoSuchProcess", 21)>>
    /\ i' = i + 1
    /\ UNCHANGED <<env, ncmds, response, o_cpus, affinity, pc, exit_status>>

PinNoSuchProcess ==
    /\ Callable
    /\ pid \notin threads
    /\ calls' = Append(calls, Call(i, pid, core, FALSE, "NoSuchProcess"))
    /\ Uncaught(<<Exc("NoSuchProcess", 21)>>)
    /\ UNCHANGED <<env, ncmds, response, o_cpus, i, affinity>>

\* line 21, cpu_affinity([core]) raises ValueError for a CPU the host has
\* not; line 23 then raises TypeError inside the handler, so line 24 is not
\* reached and the traceback shows both exceptions
PinValueError_exit0 ==
    /\ Callable
    /\ pid \in threads
    /\ ~ValidCpus(pin_cpus(core))
    /\ calls' = Append(calls, Call(i, pid, core, FALSE, "ValueError"))
    /\ stderr' = stderr \o <<Exc("ValueError", 21)>>
    /\ exit_status' = 0
    /\ pc' = "exited"
    /\ UNCHANGED <<env, ncmds, response, o_cpus, i, affinity>>

PinValueError ==
    /\ Callable
    /\ pid \in threads
    /\ ~ValidCpus(pin_cpus(core))
    /\ calls' = Append(calls, Call(i, pid, core, FALSE, "ValueError"))
    /\ Uncaught(<<Exc("ValueError", 21), Exc("TypeError", 23)>>)
    /\ UNCHANGED <<env, ncmds, response, o_cpus, i, affinity>>

\* line 21 succeeds; the for loop moves on
PinOk ==
    /\ Callable
    /\ pid \in threads
    /\ ValidCpus(pin_cpus(core))
    /\ affinity' = [affinity EXCEPT ![pid] = ListElems(pin_cpus(core))]
    /\ calls' = Append(calls, Call(i, pid, core, TRUE, "none"))
    /\ i' = i + 1
    /\ UNCHANGED <<env, ncmds, response, o_cpus, pc, stderr, exit_status>>

\* the loop is exhausted and the script ends
Finish ==
    /\ pc = "loop"
    /\ i \notin range(0, N)
    /\ exit_status' = 0
    /\ pc' = "exited"
    /\ UNCHANGED <<env, ncmds, response, o_cpus, i, affinity, calls, stderr>>

Next ==
    \/ ConnectOk
    \/ ConnectFail
    \/ Cmd1Ok
    \/ Cmd1Fail
    \/ Cmd2Ok
    \/ Cmd2Fail
    \/ Cmd2NoReturn
    \/ BuildOCpus
    \/ PinIndexError
    \/ PinKeyError
    \/ PinNoSuchProcess
    \/ PinValueError
    \/ PinOk
    \/ Finish

Spec == Init /\ [][Next]_vars

\* ------------------------------------------- specification of onlinecpu()
\* Hosts with nodes 0..mn, every node any subset of the CPUs 0..OcMaxCpu.
InitOnlineCpu ==
    /\ \E mn \in 0..OcMaxNode :
          /\ max_node = mn
          /\ node_to_cpus \in [0..mn -> SUBSET (0..OcMaxCpu)]
    /\ N = 0
    /\ vm_return = <<>>
    /\ threads = {}
    /\ pc = "onlinecpu"
    /\ ncmds = 0
    /\ response = <<>>
    /\ o_cpus = <<>>
    /\ i = 0
    /\ affinity = <<>>
    /\ calls = <<>>
    /\ stderr = <<>>
    /\ exit_status = Running
    /\ oc_result = <<>>

CallOnlineCpu ==
    /\ pc = "onlinecpu"
    /\ oc_result' = onlinecpu(max_node, node_to_cpus)
    /\ pc' = "returned"
    /\ UNCHANGED <<N, max_node, node_to_cpus, vm_return, threads, ncmds,
                   response, o_cpus, i, affinity, calls, stderr, exit_status>>

NextOnlineCpu == CallOnlineCpu

SpecOnlineCpu == InitOnlineCpu /\ [][NextOnlineCpu]_vars

\* ================================================================= claims
\* The query step is lines 30-32.
QueryFailed == \E k \in DOMAIN stderr : stderr[k].line \in 30..32
QueryOk == pc \in {"ocpus", "loop", "exited"} /\ ~QueryFailed
Exited == pc = "exited"
Wrote(name) == \E k \in DOMAIN stderr : stderr[k].exc = name
OkCalls == {k \in DOMAIN calls : calls[k].ok}
FailedCalls == {k \in DOMAIN calls : ~calls[k].ok}
\* the affinity the OS holds for t after the calls made so far
ExpectedAffinity(t) ==
    LET mine == {k \in OkCalls : calls[k].tid = t}
    IN  IF mine = {} THEN HostCpus
        ELSE LET last == CHOOSE k \in mine : \A j \in mine : j <= k
             IN  ListElems(calls[last].cpus)
\* Python indices at which thread t is reported
IndicesOf(t) == {k \in 0..(Len(response) - 1) : PyGet(response, k) = t}

\* ------------------------------------------------------------------- C1
\* C1: every successful pin_proc call of a run, made for vCPU index k, pins
\* the thread the query reports at index k to the k-th entry of the
\* NUMA-ordered core list onlinecpu() computes for the host.
C1_PinsInNumaOrder ==
    LET order == onlinecpu(max_node, node_to_cpus)
    IN  \A k \in OkCalls :
           /\ calls[k].idx = k - 1
           /\ calls[k].tid = response[k]
           /\ k <= Len(order) => calls[k].core = order[k]

\* ------------------------------------------------------------------- C2
\* number of entries onlinecpu() emits for the nodes below n
RECURSIVE Offset(_)
Offset(n) == IF n = 0 THEN 0 ELSE Offset(n - 1) + Cardinality(node_to_cpus[n - 1])

\* C2: the list onlinecpu() returns is the concatenation, for the nodes
\* 0..max_node in ascending order, of one segment per node; the segment of a
\* node is strictly ascending and holds exactly the CPUs of that node, so
\* every CPU appears once per node it belongs to and nothing else appears.
\* Nodes {0: {0,2}, 1: {1,3}} give [0,2,1,3]; a single node gives the sorted
\* list of its CPUs.
C2_OnlineCpuNumaOrder ==
    pc = "returned" =>
       /\ Len(oc_result) = Offset(max_node + 1)
       /\ \A n \in 0..max_node :
             LET size == Cardinality(node_to_cpus[n])
                 at(j) == oc_result[Offset(n) + j]
             IN  /\ {at(j) : j \in 1..size} = node_to_cpus[n]
                 /\ \A j \in 1..(size - 1) : at(j) < at(j + 1)
       /\ (max_node = 1 /\ node_to_cpus[0] = {0, 2} /\ node_to_cpus[1] = {1, 3})
             => oc_result = <<0, 2, 1, 3>>
       /\ (max_node = 0 /\ node_to_cpus[0] = {0, 1, 3})
             => oc_result = <<0, 1, 3>>

C2_Witness ==
    /\ pc = "returned"
    /\ max_node = 1
    /\ node_to_cpus[0] = {0, 2}
    /\ node_to_cpus[1] = {1, 3}
    /\ oc_result = <<0, 2, 1, 3>>

\* ------------------------------------------------------------------- C3
\* C3: when a pin_proc call fails (ValueError for a core the host has not,
\* NoSuchProcess for a thread that does not exist) the error is on stderr,
\* the process has ended with status 1 in the very state the failure
\* produces, the failed call is the last call of the run, and every thread
\* pinned earlier holds the affinity its last successful call gave it.
C3_FailFastNoRollback ==
    \A k \in FailedCalls :
       /\ Exited
       /\ exit_status = 1
       /\ k = Len(calls)
       /\ i = calls[k].idx
       /\ Wrote(calls[k].err)
       /\ \A t \in threads : affinity[t] = ExpectedAffinity(t)

C3_Witness ==
    /\ Len(calls) >= 2
    /\ calls[1].ok
    /\ ~calls[Len(calls)].ok
    /\ calls[1].tid # calls[Len(calls)].tid
    /\ Cardinality(HostCpus) > 1
    /\ affinity[calls[1].tid] = {calls[1].core}
    /\ exit_status = 1

\* ------------------------------------------------------------------- C4
\* C4: a run that has ended has status 0 exactly when the query step
\* succeeded and all N pin_proc calls were made and succeeded; a failed
\* pin_proc call gives status 1; a failed query step gives a status other
\* than 0.
C4_ExitStatus ==
    Exited =>
       /\ exit_status = 0 <=> (QueryOk /\ Cardinality(OkCalls) = N)
       /\ FailedCalls # {} => exit_status = 1
       /\ QueryFailed => exit_status # 0
       /\ exit_status \in {0, 1}

C4_Witness ==
    /\ Exited
    /\ exit_status = 0
    /\ N >= 2
    /\ Cardinality(OkCalls) = N

\* ------------------------------------------------------------------- C5
\* C5: at most N pin_proc calls are made; the k-th call is for vCPU index
\* k-1 and for the thread reported at that index, so the indices are
\* 0, 1, ... ascending without repetition; a thread reported only at
\* indices >= N is never the target of a call and keeps its affinity.
C5_OnlyFirstN ==
    /\ Len(calls) <= N
    /\ \A k \in DOMAIN calls :
          /\ calls[k].idx = k - 1
          /\ calls[k].idx < N
          /\ PyInRange(response, calls[k].idx)
          /\ calls[k].tid = PyGet(response, calls[k].idx)
    /\ \A t \in threads :
          (IndicesOf(t) # {} /\ \A x \in IndicesOf(t) : x >= N) =>
             /\ affinity[t] = HostCpus
             /\ \A k \in DOMAIN calls : calls[k].tid # t

C5_Witness ==
    /\ Exited
    /\ exit_status = 0
    /\ N >= 1
    /\ Len(calls) = N
    /\ Cardinality(HostCpus) > 1
    /\ \E t \in threads :
          /\ IndicesOf(t) # {}
          /\ \A x \in IndicesOf(t) : x >= N
          /\ affinity[t] = HostCpus

\* ------------------------------------------------------------------- C6
\* C6: when the response has fewer than N entries the run never ends with
\* status 0 and never gets past index Len(response): every call is for a
\* thread id of the response, and a run that reaches index Len(response)
\* ends right there with an IndexError on stderr and status 1.
C6_ShortResponse ==
    (QueryOk /\ Len(response) < N) =>
       /\ exit_status # 0
       /\ i <= Len(response)
       /\ \A k \in DOMAIN calls :
             /\ calls[k].idx < Len(response)
             /\ calls[k].tid \in ListElems(response)
       /\ (Exited /\ i = Len(response)) =>
             /\ stderr = <<Exc("IndexError", 36)>>
             /\ exit_status = 1
             /\ Len(calls) = Len(response)
       /\ (Exited /\ FailedCalls = {} /\ ~Wrote("KeyError")) => i = Len(response)

C6_Witness ==
    /\ Exited
    /\ QueryOk
    /\ Len(response) < N
    /\ Len(calls) >= 1
    /\ i = Len(response)
    /\ Wrote("IndexError")
    /\ exit_status = 1

\* ------------------------------------------------------------------- C7
\* the endpoint accepted the connection and answered both commands
EndpointReachable ==
    /\ pc \notin {"connect", "cmd1", "cmd2"}
    /\ ~Wrote("ConnectionError")
    /\ ~Wrote("QMPError")

\* C7 as stated: with N = 0 and a reachable endpoint the run makes no
\* pin_proc call and ends with status 0.
C7_ZeroReachableExits0 ==
    (N = 0 /\ EndpointReachable) =>
       /\ calls = <<>>
       /\ Exited => exit_status = 0

\* C7 amended: with N = 0 no pin_proc call is made and no affinity changes
\* in any run, and a run whose query step succeeded ends with status 0.
C7_ZeroPinsNothing ==
    N = 0 =>
       /\ calls = <<>>
       /\ \A t \in threads : affinity[t] = HostCpus
       /\ (Exited /\ QueryOk) => exit_status = 0
       /\ (Exited /\ exit_status = 0) => QueryOk

C7_Witness ==
    /\ N = 0
    /\ Exited
    /\ exit_status = 0
    /\ Len(response) >= 1
    /\ PyGet(response, 0) \in threads
    /\ calls = <<>>

\* ------------------------------------------------------------------- C8
\* C8: a run issues exactly one query command: never more than one, and
\* one by the time the query step has succeeded.
C8_ExactlyOneQuery ==
    /\ ncmds <= 1
    /\ QueryOk => ncmds = 1

\* ------------------------------------------------------------------- C9
\* C9: a failed query step has ended the run with a status other than 0 in
\* the state the failure produces, no query command follows the failing
\* line (no retry), no pin_proc call was made and every affinity is the
\* initial one; and whenever a pin_proc call has been made, both query
\* commands have been issued and none is issued later.
C9_QueryFailureFatal ==
    /\ QueryFailed =>
          /\ Exited
          /\ exit_status # 0
          /\ Len(stderr) = 1
          /\ ncmds = stderr[1].line - 30
          /\ calls = <<>>
          /\ \A t \in threads : affinity[t] = HostCpus
    /\ calls # <<>> => (ncmds = 2 /\ pc \in {"loop", "exited"})
    /\ pc \in {"connect", "cmd1", "cmd2"} => calls = <<>>

C9_Witness ==
    /\ QueryFailed
    /\ Exited
    /\ exit_status = 1
    /\ ncmds = 1
    /\ N >= 1
    /\ Len(vm_return) >= 1
    /\ vm_return[1] \in threads

\* ------------------------------------------------------------------ C10
\* C10: every pin_proc call hands cpu_affinity a list of exactly one core;
\* two calls of one run never name the same core; and after a run that ends
\* with status 0 on a response whose first N thread ids are pairwise
\* distinct, the N threads hold pairwise distinct one-core affinities.
C10_OneToOne ==
    /\ \A k \in DOMAIN calls :
          /\ Len(calls[k].cpus) = 1
          /\ ListElems(calls[k].cpus) = {calls[k].core}
    /\ \A j, k \in DOMAIN calls : j # k => calls[j].core # calls[k].core
    /\ (Exited /\ exit_status = 0) =>
          \A a, b \in 0..(N - 1) :
             (\A x, y \in 0..(N - 1) :
                 x # y => PyGet(response, x) # PyGet(response, y)) =>
                /\ Cardinality(affinity[PyGet(response, a)]) = 1
                /\ a # b => affinity[PyGet(response, a)] # affinity[PyGet(response, b)]

C10_Witness ==
    /\ Exited
    /\ exit_status = 0
    /\ N >= 2
    /\ PyGet(response, 0) # PyGet(response, 1)
    /\ affinity[PyGet(response, 0)] = {0}
    /\ affinity[PyGet(response, 1)] = {1}

====
